---------------------------- MODULE Spec2Model ----------------------------
(***************************************************************************)
(* A model of src/main.py: the format-selection functions                  *)
(* (_quality_from_resolution, _has_av_in_one, _is_m3u8_format,             *)
(* _select_items, _sort_key), the direct-media test and the POST /extract  *)
(* handler with its temporary credential file and its worker thread.       *)
(*                                                                         *)
(* Representation of Python values                                         *)
(*   str        a sequence of tokens (substrings); "" is << >>.  lower(),  *)
(*              strip(), split("?"), startswith, endswith and the `in`     *)
(*              substring test work on tokens.  A quality label is a       *)
(*              sequence of characters, so that the regular expression of  *)
(*              _sort_key is matched character by character.               *)
(*   codec/ext  a TLA+ string; "" stands for a missing, None or empty      *)
(*              value, which the code's truthiness tests treat alike.      *)
(*   width,     a natural number; 0 stands for a missing value or one that *)
(*   height     is not a positive int (the code tests isinstance(.,int)    *)
(*              and > 0 together, so None, 0 and -5 fare alike).           *)
(*   JSON value a record [type, s, n] (see Null, Str, Num, Obj).           *)
(***************************************************************************)
EXTENDS Integers, Sequences, FiniteSets, TLC

VARIABLES
    formats,      \* _select_items: info["formats"], the catalog
    items,        \* _select_items: the returned list of PickItem
    spc,          \* position of the _select_items call: "call" | "returned"
    payload,      \* extract: the request body
    pc,           \* extract: position of the handler
    cookie_path,  \* extract: the local cookie_path (FALSE = None, TRUE = tmp.name)
    file,         \* the temporary file on disk: "absent" | "present" | "deleted"
    worker,       \* the asyncio.to_thread call: "idle" | "running" | "returned" | "raised"
    response      \* what the handler handed back to the server

vars == <<formats, items, spc, payload, pc, cookie_path, file, worker, response>>

---------------------------------------------------------------------------
(* Bounds of the model *)

\* longest catalog of the stream-kind family of inputs
MaxKindFormats == 2

\* longest catalog of the quality-order family of inputs
MaxOrderFormats == 3

---------------------------------------------------------------------------
(* Strings as token sequences *)

\* str.lower() on one token
LowerTok(t) ==
    CASE t = ".MP4"  -> ".mp4"
      [] t = ".M3U8" -> ".m3u8"
      [] t = "M3U8"  -> "m3u8"
      [] t = "/V"    -> "/v"
      [] OTHER       -> t

\* str.lower()
Lower(s) == [i \in 1..Len(s) |-> LowerTok(s[i])]

\* `needle in s` for a needle that is one token
Contains(s, tok) == \E i \in 1..Len(s) : s[i] = tok

RECURSIVE StripLeft(_)
StripLeft(s) ==
    IF s # << >> /\ Head(s) = " " THEN StripLeft(Tail(s)) ELSE s

RECURSIVE StripRight(_)
StripRight(s) ==
    IF s # << >> /\ s[Len(s)] = " " THEN StripRight(SubSeq(s, 1, Len(s) - 1)) ELSE s

\* str.strip()
Strip(s) == StripRight(StripLeft(s))

\* s.split("?")[0]: the text before the first "?"
RECURSIVE BeforeQuestion(_)
BeforeQuestion(s) ==
    IF s = << >> \/ Head(s) = "?" THEN << >>
    ELSE <<Head(s)>> \o BeforeQuestion(Tail(s))

\* s.endswith(tok)
EndsWith(s, tok) == s # << >> /\ s[Len(s)] = tok

\* s.startswith(tok)
StartsWith(s, tok) == s # << >> /\ s[1] = tok

---------------------------------------------------------------------------
(* Quality labels, as character sequences *)

Q1080 == <<"1", "0", "8", "0", "p">>
Q720 == <<"7", "2", "0", "p">>
Q480 == <<"4", "8", "0", "p">>
Q360 == <<"3", "6", "0", "p">>
Q240 == <<"2", "4", "0", "p">>
Q144 == <<"1", "4", "4", "p">>
QDirect == <<"d", "i", "r", "e", "c", "t">>

\* Optional[str] None of _quality_from_resolution
NoQuality == << >>

Digits == {"0", "1", "2", "3", "4", "5", "6", "7", "8", "9"}

DigitValue(c) ==
    CASE c = "0" -> 0 [] c = "1" -> 1 [] c = "2" -> 2 [] c = "3" -> 3
      [] c = "4" -> 4 [] c = "5" -> 5 [] c = "6" -> 6 [] c = "7" -> 7
      [] c = "8" -> 8 [] c = "9" -> 9

\* int() of the n digits of s that start at i
RECURSIVE DigitsToInt(_, _, _)
DigitsToInt(s, i, n) ==
    IF n = 0 THEN 0
    ELSE 10 * DigitsToInt(s, i, n - 1) + DigitValue(s[i + n - 1])

\* \d{n}p matches s at position i
MatchAt(s, i, n) ==
    /\ i + n <= Len(s)
    /\ \A k \in 0..(n - 1) : s[i + k] \in Digits
    /\ s[i + n] = "p"

\* re.search(r"(\d{3,4})p", q): the leftmost start, four digits tried before three;
\* <<start, length>> of group 1, or << >> for no match
ReSearch(q) ==
    LET starts == {i \in 1..Len(q) : MatchAt(q, i, 4) \/ MatchAt(q, i, 3)}
    IN  IF starts = {} THEN << >>
        ELSE LET i == CHOOSE j \in starts : \A k \in starts : j <= k
             IN  IF MatchAt(q, i, 4) THEN <<i, 4>> ELSE <<i, 3>>

\* a mutant of _sort_key: the magnitude is not negated
SortKeyNotNegated(q) ==
    LET m == ReSearch(q)
    IN  IF m # << >> THEN <<0, DigitsToInt(q, m[1], m[2])>> ELSE <<1, 0>>

\* _sort_key
SortKey(q) ==
    LET m == ReSearch(q)
    IN  IF m # << >> THEN <<0, 0 - DigitsToInt(q, m[1], m[2])>> ELSE <<1, 0>>

\* Python's order on the tuples _sort_key returns
KeyLess(a, b) == a[1] < b[1] \/ (a[1] = b[1] /\ a[2] < b[2])

\* list.sort(key=...) places x behind every element whose key is not greater: stable
RECURSIVE InsertSorted(_, _)
InsertSorted(s, x) ==
    IF s = << >> THEN <<x>>
    ELSE LET l == s[Len(s)]
         IN  IF KeyLess(SortKey(x.quality), SortKey(l.quality))
             THEN InsertSorted(SubSeq(s, 1, Len(s) - 1), x) \o <<l>>
             ELSE s \o <<x>>

\* items.sort(key=lambda it: _sort_key(it.quality))
RECURSIVE SortItems(_)
SortItems(s) ==
    IF s = << >> THEN << >>
    ELSE InsertSorted(SortItems(SubSeq(s, 1, Len(s) - 1)), s[Len(s)])

---------------------------------------------------------------------------
(* _quality_from_resolution *)

\* A resolution string is << >> (None, or a string without "x") or <<a, b>>, the
\* two sides of split("x", 1); a side is << >> when int() raises on it and <<n>>
\* when int() returns n.
ResParsed(res) == Len(res) = 2 /\ res[1] # << >> /\ res[2] # << >>

\* the tier of a width
WidthTier(w) ==
    IF w >= 1920 THEN Q1080
    ELSE IF w >= 1280 THEN Q720
    ELSE IF w >= 854 THEN Q480
    ELSE IF w >= 640 THEN Q360
    ELSE IF w >= 426 THEN Q240
    ELSE Q144

\* the tier of a height
HeightTier(h) ==
    IF h >= 1080 THEN Q1080
    ELSE IF h >= 720 THEN Q720
    ELSE IF h >= 480 THEN Q480
    ELSE IF h >= 360 THEN Q360
    ELSE IF h >= 240 THEN Q240
    ELSE Q144

\* a mutant of _quality_from_resolution: the parsed resolution overrides the
\* explicit width and height
QualityResolutionFirst(res, width, height) ==
    LET w == IF ResParsed(res) THEN res[1][1] ELSE width
        h == IF ResParsed(res) THEN res[2][1] ELSE height
    IN  IF w > 0 THEN WidthTier(w)
        ELSE IF h > 0 THEN HeightTier(h)
        ELSE NoQuality

\* _quality_from_resolution; 0 stands for None in w and h
QualityFromResolution(res, width, height) ==
    LET w0 == IF ResParsed(res) THEN res[1][1] ELSE 0
        h0 == IF ResParsed(res) THEN res[2][1] ELSE 0
        w == IF width > 0 THEN width ELSE w0
        h == IF height > 0 THEN height ELSE h0
    IN  IF w > 0 THEN WidthTier(w)
        ELSE IF h > 0 THEN HeightTier(h)
        ELSE NoQuality

---------------------------------------------------------------------------
(* Format descriptors and their classification *)

\* an element of info["formats"] that is not a dict
NotADict == [notdict |-> TRUE]

\* isinstance(f, dict)
IsDict(f) == "notdict" \notin DOMAIN f

\* _has_av_in_one
HasAvInOne(f) ==
    /\ f.vcodec # "" /\ f.vcodec # "none"
    /\ f.acodec # "" /\ f.acodec # "none"

\* _is_m3u8_format
IsM3u8Format(f) ==
    \/ Lower(f.ext) = <<"m3u8">>
    \/ Contains(Lower(f.protocol), "m3u8")
    \/ Contains(Lower(f.url), ".m3u8")

---------------------------------------------------------------------------
(* _select_items *)

\* the three dicts before the loop
EmptyMaps == [best |-> << >>, m3u8 |-> << >>, fallback |-> << >>]

\* `if q not in d: d[q] = url`
PutIfAbsent(m, q, u) == IF q \in DOMAIN m THEN m ELSE m @@ (q :> u)

\* one iteration of the loop over formats
ScanOne(maps, f) ==
    IF ~IsDict(f) THEN maps
    ELSE IF f.url = << >> THEN maps
    ELSE LET q == QualityFromResolution(f.resolution, f.width, f.height)
         IN  IF q = NoQuality THEN maps
             ELSE IF HasAvInOne(f)
                  THEN [maps EXCEPT !.best = PutIfAbsent(@, q, f.url)]
             ELSE IF IsM3u8Format(f)
                  THEN [maps EXCEPT !.m3u8 = PutIfAbsent(@, q, f.url)]
             ELSE [maps EXCEPT !.fallback = PutIfAbsent(@, q, f.url)]

\* the loop over formats, in catalog order
RECURSIVE Scan(_)
Scan(fs) ==
    IF fs = << >> THEN EmptyMaps
    ELSE ScanOne(Scan(SubSeq(fs, 1, Len(fs) - 1)), fs[Len(fs)])

\* the set the merge loop iterates over
MergedKeys(maps) == DOMAIN maps.best \cup DOMAIN maps.m3u8 \cup DOMAIN maps.fallback

\* a mutant of the merge: video-only is preferred to manifest
MergedUrlFallbackFirst(maps, q) ==
    IF q \in DOMAIN maps.best THEN maps.best[q]
    ELSE IF q \in DOMAIN maps.fallback THEN maps.fallback[q]
    ELSE maps.m3u8[q]

\* merged[q]
MergedUrl(maps, q) ==
    IF q \in DOMAIN maps.best THEN maps.best[q]
    ELSE IF q \in DOMAIN maps.m3u8 THEN maps.m3u8[q]
    ELSE maps.fallback[q]

\* the orders in which a Python set of strings may be iterated: any
KeyOrders(keys) ==
    {o \in [1..Cardinality(keys) -> keys] :
        \A i, j \in 1..Cardinality(keys) : i # j => o[i] # o[j]}

\* lines 128-139: merge, build the items in the order the keys were met, sort
MergeAndSort(maps, order) ==
    SortItems([i \in 1..Len(order) |->
                  [quality |-> order[i], url |-> MergedUrl(maps, order[i])]])

\* _select_items, given the order in which the merge loop met the keys
SelectItems(fs, order) == MergeAndSort(Scan(fs), order)

---------------------------------------------------------------------------
(* The catalogs the selection is checked on *)

SeqsUpTo(S, n) == UNION {[1..k -> S] : k \in 0..n}

Descriptor(u, vc, ac, e, p, w, h, r) ==
    [url |-> u, vcodec |-> vc, acodec |-> ac, ext |-> e, protocol |-> p,
     width |-> w, height |-> h, resolution |-> r]

UrlA == <<"A">>
UrlB == <<"B">>
UrlHls == <<"C", ".m3u8">>
NoUrl == << >>

ProtoHttps == <<"https">>
ProtoHls == <<"m3u8", "_native">>
ProtoDash == <<"http_", "dash", "_segments">>

\* (vcodec, acodec): muxed, video-only, audio-only
CodecPairs == {<<"avc1", "mp4a">>, <<"avc1", "none">>, <<"none", "mp4a">>}

\* (ext, protocol): plain file, HLS by extension, HLS by protocol, DASH by
\* extension, DASH by protocol
Deliveries ==
    {<<<<"mp4">>, ProtoHttps>>, <<<<"m3u8">>, ProtoHttps>>, <<<<"mp4">>, ProtoHls>>,
     <<<<"mpd">>, ProtoHttps>>, <<<<"mp4">>, ProtoDash>>}

\* stream-kind family: every combination of url, codecs and delivery at one height
KindDescriptors ==
    {Descriptor(u, c[1], c[2], d[1], d[2], 0, 720, << >>) :
        u \in {UrlA, UrlB, UrlHls}, c \in CodecPairs, d \in Deliveries}

\* quality-order family: plain https/mp4 descriptors of three heights, muxed or
\* video-only; and one descriptor each without height, without url, without
\* vcodec, with an upper-case extension, and an element that is not a dict
OrderDescriptors ==
    {Descriptor(u, "avc1", ac, <<"mp4">>, ProtoHttps, 0, h, << >>) :
        u \in {UrlA, UrlB},
        ac \in {"none", "mp4a"},
        h \in {480, 720, 1080}}
    \cup {Descriptor(UrlB, "avc1", "mp4a", <<"mp4">>, ProtoHttps, 0, 0, << >>),
          Descriptor(NoUrl, "avc1", "mp4a", <<"mp4">>, ProtoHttps, 0, 720, << >>),
          Descriptor(UrlB, "", "mp4a", <<"mp4">>, ProtoHttps, 0, 720, << >>),
          Descriptor(UrlB, "avc1", "", <<"M3U8">>, ProtoHttps, 0, 720, << >>),
          NotADict}

Widths == {0, 1, 425, 426, 639, 640, 853, 854, 1279, 1280, 1919, 1920, 3840}
Heights == {0, 1, 239, 240, 359, 360, 479, 480, 719, 720, 1079, 1080, 2160}

\* resolution strings: none, or "WxH" with each side an integer or not
Resolutions ==
    {<< >>} \cup
    {<<a, b>> : a \in {<< >>, <<0>>, <<640>>, <<1280>>, <<1920>>},
                b \in {<< >>, <<0>>, <<360>>, <<720>>, <<1080>>}}

\* quality family: one muxed descriptor of every width, height and resolution
QualityDescriptors ==
    {Descriptor(UrlA, "avc1", "mp4a", <<"mp4">>, ProtoHttps, w, h, r) :
        w \in Widths, h \in Heights, r \in Resolutions}

Catalogs ==
    SeqsUpTo(KindDescriptors, MaxKindFormats)
    \cup SeqsUpTo(OrderDescriptors, MaxOrderFormats)
    \cup {<<d>> : d \in QualityDescriptors}

---------------------------------------------------------------------------
(* JSON values of the request body *)

Null == [type |-> "null", s |-> << >>, n |-> 0]
Str(s) == [type |-> "str", s |-> s, n |-> 0]
Num(n) == [type |-> "num", s |-> << >>, n |-> n]
Obj(n) == [type |-> "obj", s |-> << >>, n |-> n]

\* Python truthiness; n is the number or the number of entries
Truthy(v) ==
    CASE v.type = "null" -> FALSE
      [] v.type = "str"  -> v.s # << >>
      [] OTHER           -> v.n # 0

\* (payload.get(k) or "").strip() raises AttributeError: a truthy value that is
\* not a str has no strip
StripRaises(v) == Truthy(v) /\ v.type # "str"

\* (payload.get(k) or "").strip(), when it does not raise
StripOrEmpty(v) == IF Truthy(v) THEN Strip(v.s) ELSE << >>

---------------------------------------------------------------------------
(* Responses *)

NoResponse == [status |-> 0, kind |-> "none", error |-> "", out |-> << >>]

\* _err: JSONResponse(status_code=code, content={"ok": False, "error": msg})
Err(msg, code) == [status |-> code, kind |-> "error", error |-> msg, out |-> << >>]

\* JSONResponse(content=out)
Ok(out) == [status |-> 200, kind |-> "list", error |-> "", out |-> out]

\* what the server answers when the handler lets an exception escape
ServerError == [status |-> 500, kind |-> "text", error |-> "Internal Server Error", out |-> << >>]

---------------------------------------------------------------------------
(* extract: validation, direct-media test, response *)

\* _is_direct_media
IsDirectMedia(url) ==
    LET u == BeforeQuestion(Lower(url))
    IN  \E x \in {".mp4", ".m3u8", ".mpd"} : EndsWith(u, x)

\* lines 165-182: "raise", a 400 response, or "ok"
Validation(p) ==
    IF StripRaises(p.app_name) \/ StripRaises(p.name) \/ StripRaises(p.url)
    THEN [outcome |-> "raise", response |-> ServerError]
    ELSE LET url == StripOrEmpty(p.url)
         IN  IF StripOrEmpty(p.app_name) = << >>
             THEN [outcome |-> "return", response |-> Err("app_name is required", 400)]
             ELSE IF StripOrEmpty(p.name) = << >>
             THEN [outcome |-> "return", response |-> Err("name is required", 400)]
             ELSE IF url = << >> \/ ~(StartsWith(url, "http://") \/ StartsWith(url, "https://"))
             THEN [outcome |-> "return",
                   response |-> Err("url is required and must start with http/https", 400)]
             ELSE IF p.headers.type \notin {"null", "obj"}
             THEN [outcome |-> "return", response |-> Err("headers must be an object", 400)]
             ELSE IF p.cookies.type \notin {"null", "str"}
             THEN [outcome |-> "return", response |-> Err("cookies must be a string", 400)]
             ELSE [outcome |-> "ok", response |-> NoResponse]

\* is_facebook
IsFacebook(p) == Contains(Lower(StripOrEmpty(p.url)), ".facebook.com")

\* is_facebook and cookies and cookies.strip()
WantsCookieFile(p) ==
    IsFacebook(p) /\ Truthy(p.cookies) /\ Strip(p.cookies.s) # << >>

\* lines 197-204: the direct-media fallback, the 422 and the 200
Respond(p, selected) ==
    LET url == StripOrEmpty(p.url)
        its == IF selected = << >> /\ IsDirectMedia(url)
               THEN <<[quality |-> QDirect, url |-> url]>>
               ELSE selected
    IN  [items |-> its,
         response |->
             IF its = << >> THEN Err("failed to extract formats", 422)
             ELSE Ok([i \in 1..Len(its) |->
                         [quality |-> its[i].quality, url |-> its[i].url,
                          name |-> StripOrEmpty(p.name)]])]

---------------------------------------------------------------------------
(* The requests and the collaborator's answers the handler is checked on *)

\* longest catalog the collaborator returns to the handler
MaxInfoFormats == 2

NameValues == {Null, Str(<< >>), Str(<<" ">>), Str(<<" ", "app", " ">>), Num(0), Num(123)}

UrlStrings ==
    {<<"https://", "example.com", "/watch">>,
     <<"https://", "example.com", "/v", ".mp4">>,
     <<"http://", "example.com", "/v", ".m3u8", "?", "t=1">>,
     <<"https://", "example.com", "/V", ".MP4">>,
     <<"https://", "example.com", "/v", ".mpd", "#", "t=10">>,
     <<"https://", "example.com", "/watch", "#", "clip", ".mp4">>,
     <<"https://", "example.com", "/watch", "?", "f=", ".mp4">>,
     <<"https://", "www", ".facebook.com", "/watch">>,
     <<"https://", "www", ".facebook.com", "/v", ".mp4">>,
     <<" ", "https://", "example.com", "/watch", " ">>,
     <<"ftp://", "x">>,
     <<" ">>,
     << >>}

UrlValues == {Null, Num(7)} \cup {Str(u) : u \in UrlStrings}

HeaderValues == {Null, Obj(1), Str(<<"h">>)}

CookieValues == {Null, Str(<< >>), Str(<<" ">>), Str(<<"c_user=1">>), Num(5)}

Payloads ==
    [app_name : NameValues, name : NameValues, url : UrlValues,
     headers : HeaderValues, cookies : CookieValues]

NoPayload == [app_name |-> Null, name |-> Null, url |-> Null, headers |-> Null, cookies |-> Null]

\* descriptors of the collaborator's answers: muxed, video-only, HLS, audio-only
\* with and without a size
InfoDescriptors ==
    {Descriptor(UrlA, "avc1", "mp4a", <<"mp4">>, ProtoHttps, 1280, 720, << >>),
     Descriptor(UrlB, "avc1", "none", <<"mp4">>, ProtoHttps, 0, 1080, << >>),
     Descriptor(UrlHls, "avc1", "none", <<"mp4">>, ProtoHls, 0, 720, << >>),
     Descriptor(UrlB, "none", "mp4a", <<"m4a">>, ProtoHttps, 0, 0, << >>),
     Descriptor(NoUrl, "avc1", "mp4a", <<"mp4">>, ProtoHttps, 0, 720, << >>)}

InfoCatalogs == SeqsUpTo(InfoDescriptors, MaxInfoFormats)

---------------------------------------------------------------------------
(* extract: the handler, the worker thread and the temporary file *)

Init ==
    /\ payload \in Payloads
    /\ pc = "start"
    /\ cookie_path = FALSE
    /\ file = "absent"
    /\ worker = "idle"
    /\ response = NoResponse
    /\ formats = << >>
    /\ items = << >>
    /\ spc = "call"

\* lines 165-182: an AttributeError escapes the handler, or a 400 is returned, or
\* the handler goes on to the try block
Validate ==
    /\ pc = "start"
    /\ LET v == Validation(payload)
       IN  /\ response' = v.response
           /\ pc' = IF v.outcome = "ok" THEN "try" ELSE "done"
    /\ UNCHANGED <<formats, items, spc, payload, cookie_path, file, worker>>

\* line 188 false: no credential file
SkipCookieFile ==
    /\ pc = "try"
    /\ ~WantsCookieFile(payload)
    /\ pc' = "call"
    /\ UNCHANGED <<formats, items, spc, payload, cookie_path, file, worker, response>>

\* line 189: NamedTemporaryFile(delete=False) creates the file
CreateCookieFile ==
    /\ pc = "try"
    /\ WantsCookieFile(payload)
    /\ file' = "present"
    /\ pc' = "write"
    /\ UNCHANGED <<formats, items, spc, payload, cookie_path, worker, response>>

\* line 189 raises (no file is created): to the except clause
CreateCookieFileFails ==
    /\ pc = "try"
    /\ WantsCookieFile(payload)
    /\ pc' = "except"
    /\ UNCHANGED <<formats, items, spc, payload, cookie_path, file, worker, response>>

\* lines 190-192: write, close, cookie_path = tmp.name
WriteCookieFile ==
    /\ pc = "write"
    /\ cookie_path' = TRUE
    /\ pc' = "call"
    /\ UNCHANGED <<formats, items, spc, payload, file, worker, response>>

\* line 190 or 191 raises (OSError): cookie_path is still None
WriteCookieFileFails ==
    /\ pc = "write"
    /\ pc' = "except"
    /\ UNCHANGED <<formats, items, spc, payload, cookie_path, file, worker, response>>

\* line 194 and 159-160: asyncio.to_thread starts _ydl_extract on a worker thread
\* and the handler awaits it
StartExtract ==
    /\ pc = "call"
    /\ worker' = "running"
    /\ pc' = "await"
    /\ UNCHANGED <<formats, items, spc, payload, cookie_path, file, response>>

\* lines 142-156: the collaborator returns an info dict
WorkerReturns ==
    /\ worker = "running"
    /\ worker' = "returned"
    /\ formats' \in InfoCatalogs
    /\ UNCHANGED <<items, spc, payload, pc, cookie_path, file, response>>

\* lines 142-156: the collaborator raises
WorkerRaises ==
    /\ worker = "running"
    /\ worker' = "raised"
    /\ UNCHANGED <<formats, items, spc, payload, pc, cookie_path, file, response>>

\* lines 194-204: the await returns info; selection, fallback, 422 or 200
ResumeWithInfo ==
    /\ pc = "await"
    /\ worker = "returned"
    /\ \E order \in KeyOrders(MergedKeys(Scan(formats))) :
           LET r == Respond(payload, SelectItems(formats, order))
           IN  /\ items' = r.items
               /\ response' = r.response
    /\ spc' = "returned"
    /\ pc' = "finally"
    /\ UNCHANGED <<formats, payload, cookie_path, file, worker>>

\* line 194: the await re-raises the collaborator's exception
ResumeWithException ==
    /\ pc = "await"
    /\ worker = "raised"
    /\ pc' = "except"
    /\ UNCHANGED <<formats, items, spc, payload, cookie_path, file, worker, response>>

\* lines 206-207
Except ==
    /\ pc = "except"
    /\ response' = Err("exception text", 500)
    /\ pc' = "finally"
    /\ UNCHANGED <<formats, items, spc, payload, cookie_path, file, worker>>

\* line 194: the awaiting task is cancelled (its caller abandoned the request);
\* CancelledError is not an Exception, so only the finally clause runs, and the
\* worker thread goes on
Cancel ==
    /\ pc = "await"
    /\ pc' = "finally_cancelled"
    /\ UNCHANGED <<formats, items, spc, payload, cookie_path, file, worker, response>>

\* lines 209-214, then control leaves the handler; os.unlink removes the file the
\* handler itself created (a failing unlink is swallowed by lines 213-214 and is
\* not modelled)
Finally ==
    /\ pc \in {"finally", "finally_cancelled"}
    /\ file' = IF cookie_path THEN "deleted" ELSE file
    /\ pc' = IF pc = "finally" THEN "done" ELSE "cancelled"
    /\ UNCHANGED <<formats, items, spc, payload, cookie_path, worker, response>>

Next ==
    \/ Validate
    \/ SkipCookieFile
    \/ CreateCookieFile
    \/ CreateCookieFileFails
    \/ WriteCookieFile
    \/ WriteCookieFileFails
    \/ StartExtract
    \/ WorkerReturns
    \/ WorkerRaises
    \/ ResumeWithInfo
    \/ ResumeWithException
    \/ Except
    \/ Cancel
    \/ Finally

Spec == Init /\ [][Next]_vars

---------------------------------------------------------------------------
(* The handler's variables while only _select_items is exercised *)

HandlerIdle ==
    /\ payload = NoPayload
    /\ pc = "none"
    /\ cookie_path = FALSE
    /\ file = "absent"
    /\ worker = "idle"
    /\ response = NoResponse

InitSelect ==
    /\ formats \in Catalogs
    /\ items = << >>
    /\ spc = "call"
    /\ HandlerIdle

\* items = _select_items({"formats": formats})
SelectItemsCall ==
    /\ spc = "call"
    /\ \E order \in KeyOrders(MergedKeys(Scan(formats))) :
           items' = SelectItems(formats, order)
    /\ spc' = "returned"
    /\ UNCHANGED <<formats, payload, pc, cookie_path, file, worker, response>>

NextSelect == SelectItemsCall

SpecSelect == InitSelect /\ [][NextSelect]_vars

---------------------------------------------------------------------------
(* Properties of _select_items *)

Quality(f) == QualityFromResolution(f.resolution, f.width, f.height)

\* a descriptor the loop does not skip
Kept(f) == IsDict(f) /\ f.url # << >> /\ Quality(f) # NoQuality

\* 1 self-contained, 2 manifest, 3 fallback
KindRank(f) == IF HasAvInOne(f) THEN 1 ELSE IF IsM3u8Format(f) THEN 2 ELSE 3

\* the positions of the kept descriptors of quality q
KeptAt(q) == {k \in 1..Len(formats) : Kept(formats[k]) /\ Quality(formats[k]) = q}

\* the position that supplies the url of quality q: the best kind present, and
\* within it the first position in catalog order
Supplier(q) ==
    LET best == CHOOSE r \in 1..3 :
                    /\ \E k \in KeptAt(q) : KindRank(formats[k]) = r
                    /\ \A k \in KeptAt(q) : KindRank(formats[k]) >= r
        ofKind == {k \in KeptAt(q) : KindRank(formats[k]) = best}
    IN  CHOOSE k \in ofKind : \A j \in ofKind : k <= j

Excluded(f) == ~IsDict(f) \/ f.url = << >> \/ f.vcodec = "none"

\* the catalog without its excluded descriptors
RECURSIVE WithoutExcluded(_)
WithoutExcluded(fs) ==
    IF fs = << >> THEN << >>
    ELSE IF Excluded(Head(fs)) THEN WithoutExcluded(Tail(fs))
    ELSE <<Head(fs)>> \o WithoutExcluded(Tail(fs))

\* C5: a descriptor without url or with vcodec "none" enters none of the three
\* mappings and never supplies a url; a catalog of such descriptors only yields
\* an empty selection.
C5_ExcludedNeverSelected ==
    spc = "returned" =>
        /\ Scan(formats) = Scan(WithoutExcluded(formats))
        /\ (\A k \in 1..Len(formats) : Excluded(formats[k])) => items = << >>

\* manifest as C8 states it
ClaimManifest(f) ==
    \/ Lower(f.ext) \in {<<"m3u8">>, <<"mpd">>}
    \/ Contains(Lower(f.protocol), "m3u8")
    \/ Contains(Lower(f.protocol), "dash")
    \/ Contains(Lower(f.url), ".m3u8")

\* a kept descriptor with a video track
VideoBearing(f) == Kept(f) /\ f.vcodec # "none"

\* C8: a video-bearing descriptor that is not self-contained enters the manifest
\* mapping exactly when it is a manifest (HLS or DASH), and at a quality without
\* a self-contained descriptor a manifest's url is selected over a video-only
\* one's, whatever their order.
C8_ManifestOverVideoOnly ==
    (spc = "returned" /\ \A k \in 1..Len(formats) : VideoBearing(formats[k])) =>
        /\ \A k \in 1..Len(formats) :
               ~HasAvInOne(formats[k]) =>
                   (Scan(<<formats[k]>>).m3u8 # << >> <=> ClaimManifest(formats[k]))
        /\ \A i \in 1..Len(items) :
               LET at == KeptAt(items[i].quality)
               IN  (/\ \A k \in at : ~HasAvInOne(formats[k])
                    /\ \E k \in at : ClaimManifest(formats[k]))
                   => \E k \in at : /\ ClaimManifest(formats[k])
                                    /\ items[i].url = formats[k].url

\* the magnitude of a tier label, by table
TierMagnitude(q) ==
    CASE q = Q1080 -> 1080 [] q = Q720 -> 720 [] q = Q480 -> 480
      [] q = Q360 -> 360 [] q = Q240 -> 240 [] q = Q144 -> 144
      [] OTHER -> 0 - 1

\* C9: the returned list is in strictly descending magnitude, labels without a
\* magnitude last, whatever the catalog order and the iteration order of the
\* merged key set; sorting it again changes nothing.
C9_DescendingOrder ==
    spc = "returned" =>
        /\ \A i, j \in 1..Len(items) :
               i < j => /\ TierMagnitude(items[i].quality) > TierMagnitude(items[j].quality)
                        /\ TierMagnitude(items[i].quality) > 0
        /\ LET maps == Scan(formats)
           IN  \A order \in KeyOrders(MergedKeys(maps)) : MergeAndSort(maps, order) = items
        /\ SortItems(items) = items

\* C9 witness: heights 480, 1080, 720 in that catalog order give 1080p, 720p, 480p
C9_Witness ==
    /\ spc = "returned"
    /\ Len(formats) = 3
    /\ IsDict(formats[1]) /\ formats[1].height = 480
    /\ IsDict(formats[2]) /\ formats[2].height = 1080
    /\ IsDict(formats[3]) /\ formats[3].height = 720
    /\ Len(items) = 3
    /\ items[1].quality = Q1080 /\ items[2].quality = Q720 /\ items[3].quality = Q480

\* the thresholds of C10, highest first
WidthThresholds == <<1920, 1280, 854, 640, 426>>
HeightThresholds == <<1080, 720, 480, 360, 240>>
TierLabels == <<Q1080, Q720, Q480, Q360, Q240>>

\* the label of the first threshold that v reaches, else 144p
TierOf(v, thresholds) ==
    LET reached == {n \in 1..Len(thresholds) : v >= thresholds[n]}
    IN  IF reached = {} THEN Q144
        ELSE TierLabels[CHOOSE n \in reached : \A m \in reached : n <= m]

\* the label C10 states
ClaimQuality(f) ==
    LET usable == Len(f.resolution) = 2 /\ f.resolution[1] # << >> /\ f.resolution[2] # << >>
        w == IF f.width > 0 THEN f.width
             ELSE IF usable THEN f.resolution[1][1] ELSE 0
        h == IF f.height > 0 THEN f.height
             ELSE IF usable THEN f.resolution[2][1] ELSE 0
    IN  IF w > 0 THEN TierOf(w, WidthThresholds)
        ELSE IF h > 0 THEN TierOf(h, HeightThresholds)
        ELSE NoQuality

\* C10: explicit positive width/height override the parsed "WxH", the tier comes
\* from the resolved width when there is one and else from the resolved height,
\* and a descriptor with neither gets no label and is not selected.
C10_QualityTiers ==
    /\ \A k \in 1..Len(formats) :
           IsDict(formats[k]) => Quality(formats[k]) = ClaimQuality(formats[k])
    /\ (spc = "returned" /\ Len(formats) = 1 /\ IsDict(formats[1]) /\ formats[1].url # << >>) =>
           items = IF ClaimQuality(formats[1]) = NoQuality THEN << >>
                   ELSE <<[quality |-> ClaimQuality(formats[1]), url |-> formats[1].url]>>

\* C10 witness: width 1280 overrides resolution "1920x1080" and gives 720p
C10_Witness ==
    /\ spc = "returned"
    /\ Len(formats) = 1
    /\ formats[1].width = 1280 /\ formats[1].height = 0
    /\ formats[1].resolution = <<<<1920>>, <<1080>>>>
    /\ items = <<[quality |-> Q720, url |-> UrlA]>>

---------------------------------------------------------------------------
(* Properties of the handler *)

\* the handler has handed control back
Returned == pc \in {"done", "cancelled"}

\* C2: whenever a temporary credential file was created, it has been deleted by
\* the time the handler returns control, on every exit path.
C2_FileDeletedOnEveryExit == Returned => file # "present"

\* C3: for a .facebook.com request with non-empty cookies the credential file
\* exists as long as the collaborator call runs on the worker thread, also when
\* the request is cancelled while awaiting it, and it is gone once the response
\* to a completed call is produced.
C3_FileOutlivesCall ==
    WantsCookieFile(payload) =>
        /\ worker = "running" => file = "present"
        /\ (pc = "done" /\ worker \in {"returned", "raised"}) => file = "deleted"

\* a required field as C4 wants it: a string that is non-empty after trimming
WellFormedString(v) == v.type = "str" /\ Strip(v.s) # << >>

\* C4's malformed request
ClaimMalformed(p) ==
    \/ ~WellFormedString(p.app_name)
    \/ ~WellFormedString(p.name)
    \/ ~WellFormedString(p.url)
    \/ ~(StartsWith(Strip(p.url.s), "http://") \/ StartsWith(Strip(p.url.s), "https://"))

\* C4: a request with a missing or malformed app_name, name or url is answered
\* 400 with {ok: false, error}, and neither the collaborator is invoked nor a
\* credential file created.
C4_MalformedIs400 ==
    (pc = "done" /\ ClaimMalformed(payload)) =>
        /\ response.status = 400
        /\ response.kind = "error"
        /\ worker = "idle"
        /\ file = "absent"

\* the path of a URL: what follows the scheme and the host, up to "?" or "#"
RECURSIVE UpToQueryOrFragment(_)
UpToQueryOrFragment(s) ==
    IF s = << >> \/ Head(s) \in {"?", "#"} THEN << >>
    ELSE <<Head(s)>> \o UpToQueryOrFragment(Tail(s))

RECURSIVE AfterAuthority(_)
AfterAuthority(s) ==
    IF s # << >> /\ Head(s) \in {"http://", "https://", "example.com", "www", ".facebook.com"}
    THEN AfterAuthority(Tail(s))
    ELSE s

UrlPath(u) == UpToQueryOrFragment(AfterAuthority(u))

\* the path ends in .mp4, .m3u8 or .mpd, in either case
PathIsDirectMedia(u) ==
    UrlPath(u) # << >> /\ LowerTok(UrlPath(u)[Len(UrlPath(u))]) \in {".mp4", ".m3u8", ".mpd"}

\* the url the handler works with
RequestUrl == StripOrEmpty(payload.url)

\* _select_items yields nothing for the collaborator's catalog
SelectionEmpty == MergedKeys(Scan(formats)) = {}

\* C6: a successful collaborator call with an empty selection and a URL that is
\* not direct media is answered 422 with {ok: false, error}; 500 is answered only
\* when something raised; a 200 never carries an empty or partial list.
C6_EmptySelectionIs422 ==
    pc = "done" =>
        /\ (worker = "returned" /\ SelectionEmpty /\ ~PathIsDirectMedia(RequestUrl))
               => (response.status = 422 /\ response.kind = "error")
        /\ response.status = 500 => worker # "returned"
        /\ response.status = 200 =>
               /\ response.kind = "list"
               /\ response.out # << >>
               /\ SelectionEmpty =>
                      /\ Len(response.out) = 1
                      /\ response.out[1].quality = QDirect
               /\ ~SelectionEmpty =>
                      {response.out[i].quality : i \in 1..Len(response.out)}
                          = MergedKeys(Scan(formats))

\* C7: an empty selection for a URL whose path ends in .mp4, .m3u8 or .mpd gives
\* exactly one PickItem, quality "direct" and the request URL; a non-empty
\* selection never contains the "direct" item.
C7_DirectFallback ==
    (pc = "done" /\ worker = "returned") =>
        /\ (SelectionEmpty /\ PathIsDirectMedia(RequestUrl)) =>
               /\ items = <<[quality |-> QDirect, url |-> RequestUrl]>>
               /\ response = Ok(<<[quality |-> QDirect, url |-> RequestUrl,
                                   name |-> StripOrEmpty(payload.name)]>>)
        /\ ~SelectionEmpty => \A i \in 1..Len(items) : items[i].quality # QDirect

=============================================================================
